---- MODULE Spec2Model ----
(***************************************************************************)
(* Model of src/ingest/python/procreate_meta.py: the keyed-archive         *)
(* helpers (cfuid, resolve), the metadata extractor                        *)
(* (parse_document_archive), and the inspect / clear-temp commands that    *)
(* share the temp directory.                                               *)
(*                                                                         *)
(* Python values are records [t, n, frac, s, d]:                           *)
(*   t = "none"            None (also: key absent, as dict.get sees it)    *)
(*   t = "bool"            n = 0 / 1                                       *)
(*   t = "int"             n                                               *)
(*   t = "real"            the float n + frac/2, frac in {0, 1}            *)
(*   t = "str"             s, a sequence of one-character strings          *)
(*   t = "uid"             biplist.Uid(n)                                  *)
(*   t = "list"            a list of n elements                            *)
(*   t = "dict"            d, a function from keys to values               *)
(*   t = "raise"           not a value: the evaluation raised; s names it  *)
(***************************************************************************)
EXTENDS Integers, Sequences, FiniteSets, TLC

\* ------------------------------------------------------------------ values

EmptyD == [k \in {} |-> 0]

NoneV == [t |-> "none", n |-> 0, frac |-> 0, s |-> <<>>, d |-> EmptyD]

BoolV(b) == [t |-> "bool", n |-> IF b THEN 1 ELSE 0, frac |-> 0, s |-> <<>>, d |-> EmptyD]

IntV(i) == [t |-> "int", n |-> i, frac |-> 0, s |-> <<>>, d |-> EmptyD]

RealV(i, h) == [t |-> "real", n |-> i, frac |-> h, s |-> <<>>, d |-> EmptyD]

StrV(chars) == [t |-> "str", n |-> 0, frac |-> 0, s |-> chars, d |-> EmptyD]

UidV(i) == [t |-> "uid", n |-> i, frac |-> 0, s |-> <<>>, d |-> EmptyD]

ListV(len) == [t |-> "list", n |-> len, frac |-> 0, s |-> <<>>, d |-> EmptyD]

DictV(f) == [t |-> "dict", n |-> 0, frac |-> 0, s |-> <<>>, d |-> f]

Raise(what) == [t |-> "raise", n |-> 0, frac |-> 0, s |-> <<what>>, d |-> EmptyD]

IsRaise(v) == v.t = "raise"

\* dict.get(key): the value, None when the key is missing
Get(v, key) == IF key \in DOMAIN v.d THEN v.d[key] ELSE NoneV

\* Python truth value of a value
Truthy(v) ==
    CASE v.t = "none" -> FALSE
      [] v.t \in {"bool", "int", "list"} -> v.n # 0
      [] v.t = "real" -> v.n # 0 \/ v.frac # 0
      [] v.t = "str" -> v.s # <<>>
      [] v.t = "uid" -> TRUE
      [] v.t = "dict" -> DOMAIN v.d # {}
      [] OTHER -> FALSE

\* Python `a or b`: a when a is truthy, else b (whatever b is)
PyOr(a, b) == IF Truthy(a) THEN a ELSE b

\* ----------------------------------------------------------------- strings

DigitChars == {"0", "1", "2", "3", "4", "5", "6", "7", "8", "9"}

DigitVal(c) ==
    CASE c = "0" -> 0 [] c = "1" -> 1 [] c = "2" -> 2 [] c = "3" -> 3
      [] c = "4" -> 4 [] c = "5" -> 5 [] c = "6" -> 6 [] c = "7" -> 7
      [] c = "8" -> 8 [] c = "9" -> 9

Whitespace == {" "}

RECURSIVE LStrip(_, _)
LStrip(s, chars) ==
    IF s # <<>> /\ Head(s) \in chars THEN LStrip(Tail(s), chars) ELSE s

RECURSIVE RStrip(_, _)
RStrip(s, chars) ==
    IF s # <<>> /\ s[Len(s)] \in chars
    THEN RStrip(SubSeq(s, 1, Len(s) - 1), chars)
    ELSE s

\* str.strip(chars)
Strip(s, chars) == RStrip(LStrip(s, chars), chars)

\* str.split(sep) for a one-character sep: always at least one part
RECURSIVE Split(_, _)
Split(s, sep) ==
    IF \E i \in 1..Len(s) : s[i] = sep
    THEN LET i == CHOOSE j \in 1..Len(s) :
                    s[j] = sep /\ \A k \in 1..(j - 1) : s[k] # sep
         IN <<SubSeq(s, 1, i - 1)>> \o Split(SubSeq(s, i + 1, Len(s)), sep)
    ELSE <<s>>

RECURSIVE DigitsToInt(_)
DigitsToInt(s) ==
    IF s = <<>> THEN 0
    ELSE 10 * DigitsToInt(SubSeq(s, 1, Len(s) - 1)) + DigitVal(s[Len(s)])

AllDigits(s) == \A i \in 1..Len(s) : s[i] \in DigitChars

\* int(str): optional sign, then one or more digits (surrounding
\* whitespace allowed); anything else is a ValueError
IntOfStr(s0) ==
    LET s == Strip(s0, Whitespace)
        signed == s # <<>> /\ Head(s) \in {"+", "-"}
        body == IF signed THEN Tail(s) ELSE s
    IN IF body # <<>> /\ AllDigits(body)
       THEN IntV(IF signed /\ Head(s) = "-" THEN 0 - DigitsToInt(body)
                 ELSE DigitsToInt(body))
       ELSE Raise("ValueError")

\* int(float(str)) over the characters digits, sign, "." and whitespace:
\* optional sign, digits with at most one ".", at least one digit; the
\* result is truncated toward zero, i.e. the signed integer part.
IntOfFloatStr(s0) ==
    LET s == Strip(s0, Whitespace)
        signed == s # <<>> /\ Head(s) \in {"+", "-"}
        body == IF signed THEN Tail(s) ELSE s
        parts == Split(body, ".")
        whole == parts[1]
        fracp == IF Len(parts) = 2 THEN parts[2] ELSE <<>>
    IN IF /\ Len(parts) <= 2
          /\ AllDigits(whole) /\ AllDigits(fracp)
          /\ Len(whole) + Len(fracp) > 0
       THEN IntV(IF signed /\ Head(s) = "-" THEN 0 - DigitsToInt(whole)
                 ELSE DigitsToInt(whole))
       ELSE Raise("ValueError")

\* int(v)
IntCast(v) ==
    CASE v.t \in {"bool", "int", "uid"} -> IntV(v.n)
      [] v.t = "real" -> IntV(IF v.n < 0 /\ v.frac # 0 THEN v.n + 1 ELSE v.n)
      [] v.t = "str" -> IntOfStr(v.s)
      [] OTHER -> Raise("TypeError")

\* ----------------------------------------------------------------- helpers

CFUID == "CF$UID"

cfuid(obj) ==
    IF obj.t = "dict" /\ CFUID \in DOMAIN obj.d THEN obj.d[CFUID]
    ELSE IF obj.t = "uid" THEN IntV(obj.n)
    ELSE NoneV

\* objects[uid] on a Python list
Index(objects, uid) ==
    IF uid.t \in {"int", "bool"}
    THEN IF 0 <= uid.n /\ uid.n < Len(objects) THEN objects[uid.n + 1]
         ELSE IF uid.n < 0 /\ 0 - uid.n <= Len(objects)
              THEN objects[Len(objects) + uid.n + 1]
              ELSE Raise("IndexError")
    ELSE Raise("TypeError")

resolve(objects, value) ==
    LET uid == cfuid(value)
    IN IF uid.t # "none" THEN Index(objects, uid) ELSE value

\* ------------------------------------------------- parse_document_archive

AppleEpochOffset == 978307200

GetDefault(v, key, default) == IF key \in DOMAIN v.d THEN v.d[key] ELSE default

\* len(v)
PyLen(v) ==
    CASE v.t = "list" -> IntV(v.n)
      [] v.t = "str" -> IntV(Len(v.s))
      [] v.t = "dict" -> IntV(Cardinality(DOMAIN v.d))
      [] OTHER -> Raise("TypeError")

\* Canvas size: [raised, keys, w, h]; keys are the meta keys assigned
CanvasString(s) ==
    LET clean == Strip(s, {"{", "}"})
        raw == Split(clean, ",")
        parts == [i \in 1..Len(raw) |-> Strip(raw[i], Whitespace)]
    IN IF Len(parts) = 2
       THEN LET w == IntOfFloatStr(parts[1])
                h == IntOfFloatStr(parts[2])
            IN IF IsRaise(w) \/ IsRaise(h)
               THEN [raised |-> FALSE, keys |-> {"canvas_width", "canvas_height"},
                     w |-> IntV(0), h |-> IntV(0)]
               ELSE [raised |-> FALSE, keys |-> {"canvas_width", "canvas_height"},
                     w |-> w, h |-> h]
       ELSE [raised |-> FALSE, keys |-> {}, w |-> NoneV, h |-> NoneV]

CanvasSize(objects, root) ==
    LET canvas == resolve(objects, PyOr(Get(root, "canvasSize"), Get(root, "size")))
    IN CASE IsRaise(canvas) ->
              [raised |-> TRUE, keys |-> {}, w |-> NoneV, h |-> NoneV]
         [] canvas.t = "dict" ->
              LET w == IntCast(GetDefault(canvas, "width", IntV(0)))
                  h == IntCast(GetDefault(canvas, "height", IntV(0)))
              IN [raised |-> IsRaise(w) \/ IsRaise(h),
                  keys |-> {"canvas_width", "canvas_height"}, w |-> w, h |-> h]
         [] canvas.t = "str" -> CanvasString(canvas.s)
         [] OTHER ->
              [raised |-> FALSE, keys |-> {"canvas_width", "canvas_height"},
               w |-> IntV(0), h |-> IntV(0)]

\* `int(x) if x else 0`
IntOrZero(x) == IF Truthy(x) THEN IntCast(x) ELSE IntV(0)

Dpi(root) ==
    IntOrZero(PyOr(Get(root, "dpi"), Get(root, "SilicaDocumentArchiveDPIKey")))

\* orientation_map.get(x, "unknown"): a dict lookup hashes x, then compares
\* it to the keys 1 and 2 (True == 1 and 1.0 == 1 in Python)
Orientation(root) ==
    LET x == Get(root, "orientation")
        num == x.t \in {"int", "bool", "real"} /\ x.frac = 0
    IN CASE x.t \in {"dict", "list"} -> Raise("TypeError")
         [] num /\ x.n = 1 -> StrV(<<"portrait">>)
         [] num /\ x.n = 2 -> StrV(<<"landscape">>)
         [] OTHER -> StrV(<<"unknown">>)

LayerCount(objects, root) ==
    LET explicit == Get(root, "layerCount")
        layers_ref == Get(root, "layers")
        layers == resolve(objects, layers_ref)
        counted ==
            IF explicit.t # "none" THEN explicit
            ELSE IF ~Truthy(layers_ref) THEN NoneV
            ELSE CASE IsRaise(layers) -> layers
                   [] layers.t = "dict" /\ "NS.objects" \in DOMAIN layers.d ->
                        PyLen(layers.d["NS.objects"])
                   [] layers.t = "list" -> PyLen(layers)
                   [] OTHER -> NoneV
    IN IF IsRaise(counted) THEN counted ELSE IntOrZero(counted)

TimeSpent(root) ==
    IntOrZero(PyOr(Get(root, "timeSpentDrawing"),
                   Get(root, "SilicaDocumentTrackedTimeKey")))

ColorProfile(objects, root) ==
    LET color_ref == Get(root, "colorProfile")
        color == resolve(objects, color_ref)
    IN IF ~Truthy(color_ref) THEN NoneV
       ELSE CASE IsRaise(color) -> color
              [] color.t = "dict" ->
                   LET icc_name_ref == Get(color, "SiColorProfileArchiveICCNameKey")
                       resolved_name == resolve(objects, icc_name_ref)
                       first == IF icc_name_ref.t # "none" /\ resolved_name.t = "str"
                                THEN resolved_name ELSE NoneV
                   IN IF icc_name_ref.t # "none" /\ IsRaise(resolved_name)
                      THEN resolved_name
                      ELSE IF Truthy(first) THEN first
                      ELSE PyOr(Get(color, "name"), Get(color, "iccName"))
              [] color.t = "str" -> color
              [] OTHER -> NoneV

ProcreateVersion(root) == PyOr(Get(root, "appVersion"), Get(root, "version"))

apple_time_to_unix(val) ==
    CASE val.t = "none" -> NoneV
      [] val.t \in {"int", "bool"} -> IntV(val.n + AppleEpochOffset)
      [] val.t = "real" ->
           LET sum == val.n + AppleEpochOffset
           IN IntV(IF sum < 0 /\ val.frac # 0 THEN sum + 1 ELSE sum)
      [] OTHER -> Raise("TypeError")

Created(root) ==
    PyOr(PyOr(Get(root, "creationDate"),
              Get(root, "SilicaDocumentArchiveCreationDateKey")),
         Get(root, "documentCreationDate"))

Modified(root) ==
    PyOr(PyOr(Get(root, "lastModifiedDate"),
              Get(root, "SilicaDocumentArchiveModificationDateKey")),
         Get(root, "modificationDate"))

\* A container is [open, thumb, archive]; open is FALSE when no container
\* is passed (zf is None); an entry is [present, valid, mtime, data], valid
\* meaning its stored date_time is a real calendar date.
NoEntry == [present |-> FALSE, valid |-> FALSE, mtime |-> 0, data |-> "none"]

NoZip == [open |-> FALSE, thumb |-> NoEntry, archive |-> NoEntry]

\* The fallback timestamp: an int, None, or a raise (only KeyError is
\* caught around the thumbnail entry; anything is caught around the archive)
ZipTimestamp(zf) ==
    IF zf.thumb.present
    THEN IF zf.thumb.valid THEN IntV(zf.thumb.mtime) ELSE Raise("ValueError")
    ELSE IF zf.archive.present /\ zf.archive.valid THEN IntV(zf.archive.mtime)
    ELSE NoneV

\* created_at / updated_at after the container fallback, before the clamp
Dates(root, zf) ==
    LET c0 == apple_time_to_unix(Created(root))
        u0 == apple_time_to_unix(Modified(root))
        need == zf.open /\ (c0.t = "none" \/ u0.t = "none")
        ts == IF need THEN ZipTimestamp(zf) ELSE NoneV
    IN IF IsRaise(c0) \/ IsRaise(u0) \/ IsRaise(ts)
       THEN [raised |-> TRUE, created |-> NoneV, updated |-> NoneV]
       ELSE [raised |-> FALSE,
             created |-> IF c0.t = "none" THEN ts ELSE c0,
             updated |-> IF u0.t = "none" THEN ts ELSE u0]

\* Clamp with the comparison reversed
ClampReversed(created, updated) ==
    IF created.t # "none" /\ updated.t # "none" /\ created.n < updated.n
    THEN updated ELSE created

\* Ensure created_at is never after updated_at
Clamp(created, updated) ==
    IF created.t # "none" /\ updated.t # "none" /\ created.n > updated.n
    THEN updated ELSE created

RaisedMeta ==
    [status |-> "raised", keys |-> {}, canvas_width |-> NoneV,
     canvas_height |-> NoneV, dpi |-> NoneV, orientation |-> NoneV,
     layer_count |-> NoneV, time_spent |-> NoneV, color_profile |-> NoneV,
     procreate_version |-> NoneV, created_at |-> NoneV, updated_at |-> NoneV]

OtherKeys ==
    {"dpi", "orientation", "layer_count", "time_spent", "color_profile",
     "procreate_version", "created_at", "updated_at"}

\* data is [ok, objects, top_root]: ok is FALSE when the bytes do not decode
parse_document_archive(data, zf) ==
    LET objects == data.objects
        root_uid == cfuid(data.top_root)
        root == Index(objects, root_uid)
        canvas == CanvasSize(objects, root)
        dpi == Dpi(root)
        orientation == Orientation(root)
        layer_count == LayerCount(objects, root)
        time_spent == TimeSpent(root)
        color_profile == ColorProfile(objects, root)
        dates == Dates(root, zf)
    IN IF \/ ~data.ok
          \/ root_uid.t = "none"
          \/ IsRaise(root)
          \/ root.t # "dict"
       THEN RaisedMeta
       ELSE IF \/ canvas.raised \/ IsRaise(dpi) \/ IsRaise(orientation)
               \/ IsRaise(layer_count) \/ IsRaise(time_spent)
               \/ IsRaise(color_profile) \/ dates.raised
       THEN RaisedMeta
       ELSE [status |-> "ok",
             keys |-> canvas.keys \cup OtherKeys,
             canvas_width |-> canvas.w,
             canvas_height |-> canvas.h,
             dpi |-> dpi,
             orientation |-> orientation,
             layer_count |-> layer_count,
             time_spent |-> time_spent,
             color_profile |-> color_profile,
             procreate_version |-> ProcreateVersion(root),
             created_at |-> Clamp(dates.created, dates.updated),
             updated_at |-> dates.updated]

\* ------------------------------------------------------------ input space

MaxStrLen == 4

MaxUid == 10

CanvasChars == {"{", "}", ",", " ", "1", "2", ".", "-"}

\* The strings of exactly len characters
StringsOfLen(len) == [1..len -> CanvasChars]

\* A single-key reference wrapper {"CF$UID": n}
Wrapper(i) == DictV(CFUID :> IntV(i))

\* An ordinary record that happens to hold a CF$UID key among others
OrdinaryWithUidKey ==
    DictV(CFUID :> IntV(3) @@ "width" :> IntV(7) @@ "height" :> IntV(8))

\* The object table around a root record: index 0 is "$null", index 1 the
\* root, the rest the objects a document's root refers to.
Table(root) ==
    << StrV(<<"$", "n", "u", "l", "l">>),
       root,
       DictV("width" :> IntV(100) @@ "height" :> IntV(200)),
       StrV(<<"{", "1", "0", "0", ",", " ", "2", "0", "0", "}">>),
       DictV("NS.objects" :> ListV(5)),
       ListV(3),
       DictV("SiColorProfileArchiveICCNameKey" :> UidV(7)),
       StrV(<<"P", "3">>),
       DictV("name" :> StrV(<<"s", "R", "G", "B">>)),
       RealV(300, 0) >>

\* Values of every shape a decoded archive can hold under a key
GenVals ==
    {NoneV, BoolV(TRUE), BoolV(FALSE),
     IntV(0), IntV(1), IntV(2), IntV(99),
     RealV(0, 0), RealV(1, 0), RealV(2, 0), RealV(2, 1), RealV(-3, 1),
     StrV(<<>>), StrV(<<"7">>), StrV(<<"1", ".", "5">>), StrV(<<"x">>),
     ListV(0), ListV(2),
     DictV(EmptyD), DictV("width" :> RealV(1, 1) @@ "height" :> StrV(<<"x">>)),
     DictV("width" :> IntV(640)),
     DictV("NS.objects" :> ListV(4)), DictV("NS.objects" :> IntV(4)),
     DictV("iccName" :> StrV(<<"P", "3">>)),
     OrdinaryWithUidKey}
    \cup {UidV(i) : i \in 0..MaxUid}
    \cup {Wrapper(i) : i \in {2, 3, MaxUid}}

\* The values tried under a legacy key while the primary key takes every value
LegacyVals ==
    {NoneV, IntV(0), IntV(300), RealV(72, 1), StrV(<<>>), StrV(<<"4">>),
     UidV(2), UidV(3)}

\* A root record from an assignment of keys; a key assigned None is absent
RootOf(f) == DictV([k \in {x \in DOMAIN f : f[x].t # "none"} |-> f[k]])

\* f overridden by g on g's keys
Override(f, g) == [k \in DOMAIN f \cup DOMAIN g |-> IF k \in DOMAIN g THEN g[k] ELSE f[k]]

EmptyBase == EmptyD

\* A root as a recent document stores it
TypicalBase ==
    "size" :> UidV(3) @@ "SilicaDocumentArchiveDPIKey" :> RealV(132, 0)
    @@ "orientation" :> IntV(2) @@ "layers" :> UidV(4)
    @@ "SilicaDocumentTrackedTimeKey" :> RealV(3600, 1)
    @@ "colorProfile" :> UidV(6) @@ "version" :> IntV(2)

Bases == {EmptyBase, TypicalBase}

\* Key pairs <<k1, k2>>: k1 takes every value of GenVals while k2 takes
\* the values of LegacyVals
FieldGroups ==
    {<<"canvasSize", "size">>, <<"size", "canvasSize">>,
     <<"dpi", "SilicaDocumentArchiveDPIKey">>,
     <<"SilicaDocumentArchiveDPIKey", "dpi">>,
     <<"orientation", "colorProfile">>, <<"colorProfile", "orientation">>,
     <<"layerCount", "layers">>, <<"layers", "layerCount">>,
     <<"timeSpentDrawing", "SilicaDocumentTrackedTimeKey">>,
     <<"SilicaDocumentTrackedTimeKey", "timeSpentDrawing">>,
     <<"appVersion", "version">>, <<"version", "appVersion">>}

CanvasKeys == {"canvasSize", "size"}

\* Archive-native timestamps: 0.0 is the reference epoch itself
PrimaryDates ==
    {NoneV, RealV(0, 0), RealV(10, 1), RealV(0 - AppleEpochOffset - 1, 1),
     StrV(<<"x">>)}

OtherDates == {NoneV, RealV(0, 0), RealV(20, 1)}

DateRoot(c1, c2, c3, m1, m2, m3) ==
    RootOf("creationDate" :> c1
           @@ "SilicaDocumentArchiveCreationDateKey" :> c2
           @@ "documentCreationDate" :> c3
           @@ "lastModifiedDate" :> m1
           @@ "SilicaDocumentArchiveModificationDateKey" :> m2
           @@ "modificationDate" :> m3)

Entry(mtime) == [present |-> TRUE, valid |-> TRUE, mtime |-> mtime, data |-> "png"]

\* An entry whose stored date_time is no calendar date (a zeroed DOS date)
UndatedEntry == [present |-> TRUE, valid |-> FALSE, mtime |-> 0, data |-> "png"]

ThumbEntries ==
    {NoEntry, UndatedEntry, Entry(AppleEpochOffset + 5), Entry(AppleEpochOffset + 30)}

ArchiveEntries == {NoEntry, UndatedEntry, Entry(AppleEpochOffset + 15)}

Zips ==
    {NoZip} \cup {[open |-> TRUE, thumb |-> th, archive |-> ar] :
                    th \in ThumbEntries, ar \in ArchiveEntries}

DefaultZip ==
    [open |-> TRUE, thumb |-> NoEntry, archive |-> Entry(AppleEpochOffset + 15)]

Data(root, ref) == [ok |-> TRUE, objects |-> Table(root), top_root |-> ref]

NoData == [ok |-> FALSE, objects |-> <<>>, top_root |-> NoneV]

\* Root pointers: both reference shapes, and those that do not lead to a record
RootRefs == {IntV(1), UidV(0), UidV(2), UidV(MaxUid), Wrapper(MaxUid), NoneV}

\* -------------------------------------------------- the functions, applied

\* call, ret: the function applied to its arguments, and what it returned
VARIABLES call, ret

\* The commands: per invocation its position (pc), its command line (cmd),
\* its local variables (loc) and its standard output (out); the temp
\* directory (tmp) and the clock in seconds (now) are shared.
VARIABLES pc, cmd, loc, out, tmp, now

fvars == <<call, ret>>

cvars == <<pc, cmd, loc, out, tmp, now>>

vars == <<call, ret, pc, cmd, loc, out, tmp, now>>

Idle == [fn |-> "idle", value |-> NoneV, data |-> NoData, zf |-> NoZip]

FInit == call = Idle /\ ret = NoneV

CallCfuid ==
    /\ call.fn = "idle"
    /\ \E v \in GenVals :
         /\ call' = [Idle EXCEPT !.fn = "cfuid", !.value = v]
         /\ ret' = cfuid(v)
    /\ UNCHANGED cvars

CallResolve ==
    /\ call.fn = "idle"
    /\ \E v \in GenVals, r \in {RootOf(EmptyBase), RootOf(TypicalBase)} :
         /\ call' = [Idle EXCEPT !.fn = "resolve", !.value = v,
                                 !.data = Data(r, UidV(1))]
         /\ ret' = resolve(Table(r), v)
    /\ UNCHANGED cvars

Parsed(data, zf) ==
    /\ call' = [Idle EXCEPT !.fn = "parse", !.data = data, !.zf = zf]
    /\ ret' = parse_document_archive(data, zf)
    /\ UNCHANGED cvars

\* One field's keys take every shape, over an empty or a typical root
CallParseField ==
    /\ call.fn = "idle"
    /\ \E g \in FieldGroups, b \in Bases, a \in GenVals, c \in LegacyVals,
          z \in {NoZip, DefaultZip} :
         Parsed(Data(RootOf(Override(b, g[1] :> a @@ g[2] :> c)), UidV(1)), z)

\* The canvas size is a string
CallParseCanvasString ==
    /\ call.fn = "idle"
    /\ \E k \in CanvasKeys, len \in 0..MaxStrLen :
         \E s \in StringsOfLen(len) :
            Parsed(Data(RootOf(k :> StrV(s)), UidV(1)), DefaultZip)

\* The six date keys and the container's entries vary
CallParseDates ==
    /\ call.fn = "idle"
    /\ \E c1 \in PrimaryDates, c2 \in OtherDates, c3 \in OtherDates,
          m1 \in PrimaryDates, m2 \in OtherDates, m3 \in OtherDates, z \in Zips :
         Parsed(Data(DateRoot(c1, c2, c3, m1, m2, m3), Wrapper(1)), z)

\* The root pointer varies, and the bytes may not decode
CallParseRootRef ==
    /\ call.fn = "idle"
    /\ \/ \E ref \in RootRefs : Parsed(Data(RootOf(TypicalBase), ref), DefaultZip)
       \/ Parsed(NoData, DefaultZip)

FNext ==
    \/ CallCfuid
    \/ CallResolve
    \/ CallParseField
    \/ CallParseCanvasString
    \/ CallParseDates
    \/ CallParseRootRef

\* ------------------------------------------------ inspect and clear-temp

MaxClock == 1

SecondsPerDay == 86400

DefaultDays == 7

Procs == {"p1", "p2"}

GoodData == Data(RootOf(TypicalBase), UidV(1))

\* File contents are sequences of blocks of bytes. Two well-formed images
\* of different lengths: pngA is two blocks long, pngB one.
PngA == <<"A1", "A2">>

PngB == <<"B1">>

ThumbA == [present |-> TRUE, valid |-> TRUE, mtime |-> AppleEpochOffset + 30, data |-> PngA]

ThumbB == [present |-> TRUE, valid |-> TRUE, mtime |-> AppleEpochOffset + 30, data |-> PngB]

\* A thumbnail entry whose bytes are no well-formed image
ThumbBad == [present |-> TRUE, valid |-> TRUE, mtime |-> AppleEpochOffset + 30, data |-> <<"bad">>]

ArchiveEntry == Entry(AppleEpochOffset + 15)

GoodFile(stem, thumb) ==
    [exists |-> TRUE, suffix |-> ".procreate", stem |-> stem, is_zip |-> TRUE,
     data |-> GoodData,
     zf |-> [open |-> TRUE, thumb |-> thumb, archive |-> ArchiveEntry]]

\* The files named on the command line. Two of them share the base name
\* x.procreate in different directories.
Paths ==
    {"a/x.procreate", "b/x.procreate", "plain.procreate", "corrupt.procreate",
     "missing.procreate", "x.png", "notzip.procreate", "noarchive.procreate",
     "garbage.procreate", "noroot.procreate", "rootstr.procreate"}

File(path) ==
    CASE path = "a/x.procreate" -> GoodFile("x", ThumbA)
      [] path = "b/x.procreate" -> GoodFile("x", ThumbB)
      [] path = "plain.procreate" -> GoodFile("plain", NoEntry)
      [] path = "corrupt.procreate" -> GoodFile("corrupt", ThumbBad)
      [] path = "missing.procreate" ->
           [GoodFile("missing", ThumbA) EXCEPT !.exists = FALSE]
      [] path = "x.png" -> [GoodFile("x", ThumbA) EXCEPT !.suffix = ".png"]
      [] path = "notzip.procreate" ->
           [GoodFile("notzip", ThumbA) EXCEPT !.is_zip = FALSE]
      [] path = "noarchive.procreate" ->
           [GoodFile("noarchive", ThumbA) EXCEPT !.zf.archive = NoEntry]
      [] path = "garbage.procreate" ->
           [GoodFile("garbage", ThumbA) EXCEPT !.data = NoData]
      [] path = "noroot.procreate" ->
           [GoodFile("noroot", ThumbA) EXCEPT !.data.top_root = IntV(1)]
      [] path = "rootstr.procreate" ->
           [GoodFile("rootstr", ThumbA) EXCEPT !.data.top_root = UidV(0)]

\* Image.open(path).verify() accepts the bytes: it reads the image from the
\* start of the file up to the image's end marker, and ignores what follows
WellFormed(bytes) ==
    \E png \in {PngA, PngB} :
        /\ Len(bytes) >= Len(png)
        /\ SubSeq(bytes, 1, Len(png)) = png

\* A write of data at offset 0 of a file holding old: the bytes of old past
\* the end of data stay
WriteAtStart(old, data) == data \o SubSeq(old, Len(data) + 1, Len(old))

\* Names in the temp directory: <<stem, int(time.time())>>
NoName == <<"", -1>>

\* The temp directory maps the names of the files in it to
\* [bytes, mtime, ino]; ino tells apart files created under the same name
\* (it is the invocation that created the file)
EmptyDir == [name \in {} |-> 0]

NoMeta == [RaisedMeta EXCEPT !.status = "none"]

NoLoc ==
    [meta |-> NoMeta, out_path |-> NoName, thumb_path |-> NoName,
     handle |-> "", thumb_done |-> FALSE, file_hash |-> <<>>, err |-> "",
     cutoff |-> 0, todo |-> {}, victim |-> NoName, removed |-> 0]

\* sys.argv has no argument after the command
NoPath == ""

NoArg == [given |-> FALSE, s |-> <<>>]

\* The days argument of clear-temp: absent, "0", or not a number
DayArgs == {NoArg, [given |-> TRUE, s |-> <<"0">>], [given |-> TRUE, s |-> <<"x">>]}

NoCmd == [kind |-> "", path |-> NoPath, days |-> 0]

CInit ==
    /\ pc = [p \in Procs |-> "idle"]
    /\ cmd = [p \in Procs |-> NoCmd]
    /\ loc = [p \in Procs |-> NoLoc]
    /\ out = [p \in Procs |-> <<>>]
    /\ tmp = EmptyDir
    /\ now = 0

\* An uncaught exception ends the invocation
Fail(p, why) ==
    /\ pc' = [pc EXCEPT ![p] = "failed"]
    /\ loc' = [loc EXCEPT ![p].err = why]

\* main(): the command is inspect. Without a path it prints an error line
\* to the standard output and exits with status 1.
StartInspect(p) ==
    /\ pc[p] = "idle"
    /\ \E f \in Paths \cup {NoPath} :
         /\ cmd' = [cmd EXCEPT ![p] = [kind |-> "inspect", path |-> f, days |-> 0]]
         /\ IF f = NoPath
            THEN /\ out' = [out EXCEPT ![p] =
                             Append(@, [line |-> "Error: inspect requires a file path"])]
                 /\ Fail(p, "SystemExit")
            ELSE /\ pc' = [pc EXCEPT ![p] = "check"]
                 /\ UNCHANGED <<loc, out>>
    /\ UNCHANGED <<tmp, now, call, ret>>

\* main(): the command is clear-temp; days = int(sys.argv[2]), 7 without it
StartClearTemp(p) ==
    /\ pc[p] = "idle"
    /\ \E arg \in DayArgs :
         LET days == IF arg.given THEN IntOfStr(arg.s) ELSE IntV(DefaultDays)
         IN IF IsRaise(days)
            THEN /\ cmd' = [cmd EXCEPT ![p] = [kind |-> "clear-temp", path |-> NoPath, days |-> 0]]
                 /\ Fail(p, "ValueError")
            ELSE /\ cmd' = [cmd EXCEPT ![p] =
                             [kind |-> "clear-temp", path |-> NoPath, days |-> days.n]]
                 /\ pc' = [pc EXCEPT ![p] = "clear"]
                 /\ UNCHANGED loc
    /\ UNCHANGED <<out, tmp, now, call, ret>>

\* inspect_procreate: the path check
InspectCheck(p) ==
    /\ pc[p] = "check"
    /\ LET file == File(cmd[p].path)
       IN IF ~file.exists \/ file.suffix # ".procreate"
          THEN Fail(p, "RuntimeError")
          ELSE pc' = [pc EXCEPT ![p] = "open"] /\ UNCHANGED loc
    /\ UNCHANGED <<cmd, out, tmp, now, call, ret>>

\* inspect_procreate: open the container and read Document.archive
InspectOpen(p) ==
    /\ pc[p] = "open"
    /\ LET file == File(cmd[p].path)
       IN IF ~file.is_zip THEN Fail(p, "BadZipFile")
          ELSE IF ~file.zf.archive.present THEN Fail(p, "KeyError")
          ELSE pc' = [pc EXCEPT ![p] = "parse"] /\ UNCHANGED loc
    /\ UNCHANGED <<cmd, out, tmp, now, call, ret>>

\* inspect_procreate: meta = parse_document_archive(archive_data, zf)
InspectParse(p) ==
    /\ pc[p] = "parse"
    /\ LET file == File(cmd[p].path)
           meta == parse_document_archive(file.data, file.zf)
       IN IF meta.status = "raised" THEN Fail(p, "parse")
          ELSE /\ pc' = [pc EXCEPT ![p] = "thumb_read"]
               /\ loc' = [loc EXCEPT ![p].meta = meta]
    /\ UNCHANGED <<cmd, out, tmp, now, call, ret>>

\* extract_thumbnail: read the entry and name the output file
ThumbRead(p) ==
    /\ pc[p] = "thumb_read"
    /\ LET file == File(cmd[p].path)
       IN IF ~file.zf.thumb.present
          THEN /\ pc' = [pc EXCEPT ![p] = "hash"]
               /\ loc' = [loc EXCEPT ![p].thumb_done = TRUE]
          ELSE /\ pc' = [pc EXCEPT ![p] = "thumb_open"]
               /\ loc' = [loc EXCEPT ![p].out_path = <<file.stem, now>>]
    /\ UNCHANGED <<cmd, out, tmp, now, call, ret>>

\* extract_thumbnail: open(out_path, "wb") creates the file, or truncates
\* the one that is there; the handle stays on that file even if the name
\* is unlinked later
ThumbOpen(p) ==
    /\ pc[p] = "thumb_open"
    /\ LET name == loc[p].out_path
           ino == IF name \in DOMAIN tmp THEN tmp[name].ino ELSE p
       IN /\ tmp' = [n \in DOMAIN tmp \cup {name} |->
                       IF n = name THEN [bytes |-> <<>>, mtime |-> now, ino |-> ino]
                       ELSE tmp[n]]
          /\ loc' = [loc EXCEPT ![p].handle = ino]
    /\ pc' = [pc EXCEPT ![p] = "thumb_write"]
    /\ UNCHANGED <<cmd, out, now, call, ret>>

\* extract_thumbnail: f.write(data) and the close of the with block. The
\* handle's offset is 0: the truncation was at the open, so bytes another
\* handle wrote since then past the end of data stay in the file.
ThumbWrite(p) ==
    /\ pc[p] = "thumb_write"
    /\ LET name == loc[p].out_path
       IN IF name \in DOMAIN tmp /\ tmp[name].ino = loc[p].handle
          THEN tmp' = [tmp EXCEPT ![name].bytes =
                                     WriteAtStart(@, File(cmd[p].path).zf.thumb.data),
                                  ![name].mtime = now]
          ELSE UNCHANGED tmp
    /\ pc' = [pc EXCEPT ![p] = "thumb_verify"]
    /\ UNCHANGED <<cmd, loc, out, now, call, ret>>

\* extract_thumbnail: Image.open(out_path).verify() reads the file that is
\* at the path now
ThumbVerify(p) ==
    /\ pc[p] = "thumb_verify"
    /\ LET name == loc[p].out_path
       IN IF name \notin DOMAIN tmp THEN Fail(p, "FileNotFoundError")
          ELSE IF ~WellFormed(tmp[name].bytes) THEN Fail(p, "UnidentifiedImageError")
          ELSE /\ pc' = [pc EXCEPT ![p] = "hash"]
               /\ loc' = [loc EXCEPT ![p].thumb_path = name, ![p].thumb_done = TRUE]
    /\ UNCHANGED <<cmd, out, tmp, now, call, ret>>

\* InspectHash with the object printed before the file is hashed
InspectHashPrintsFirst(p) ==
    /\ pc[p] = "hash"
    /\ out' = [out EXCEPT ![p] = Append(@,
                 [meta |-> loc[p].meta, thumbnail_path |-> loc[p].thumb_path,
                  source_path |-> cmd[p].path, file_hash |-> <<>>])]
    /\ \E readable \in BOOLEAN :
         IF readable
         THEN /\ pc' = [pc EXCEPT ![p] = "done"]
              /\ loc' = [loc EXCEPT ![p].file_hash = <<"sha256", cmd[p].path>>]
         ELSE Fail(p, "OSError")
    /\ UNCHANGED <<cmd, tmp, now, call, ret>>

\* inspect_procreate: compute_sha256(path) reads the file, or fails to
InspectHash(p) ==
    /\ pc[p] = "hash"
    /\ \E readable \in BOOLEAN :
         IF readable
         THEN /\ pc' = [pc EXCEPT ![p] = "print"]
              /\ loc' = [loc EXCEPT ![p].file_hash = <<"sha256", cmd[p].path>>]
         ELSE Fail(p, "OSError")
    /\ UNCHANGED <<cmd, out, tmp, now, call, ret>>

\* inspect_procreate: print(json.dumps(meta))
InspectPrint(p) ==
    /\ pc[p] = "print"
    /\ out' = [out EXCEPT ![p] = Append(@,
                 [meta |-> loc[p].meta, thumbnail_path |-> loc[p].thumb_path,
                  source_path |-> cmd[p].path, file_hash |-> loc[p].file_hash])]
    /\ pc' = [pc EXCEPT ![p] = "done"]
    /\ UNCHANGED <<cmd, loc, tmp, now, call, ret>>

\* clear_temp: cutoff = time.time() - days * 86400
ClearCutoff(p) ==
    /\ pc[p] = "clear"
    /\ loc' = [loc EXCEPT ![p].cutoff = now - cmd[p].days * SecondsPerDay,
                          ![p].removed = 0]
    /\ pc' = [pc EXCEPT ![p] = "clear_list"]
    /\ UNCHANGED <<cmd, out, tmp, now, call, ret>>

\* clear_temp: TEMP_DIR.glob("*.png") lists the directory
ClearList(p) ==
    /\ pc[p] = "clear_list"
    /\ loc' = [loc EXCEPT ![p].todo = DOMAIN tmp]
    /\ pc' = [pc EXCEPT ![p] = "clear_scan"]
    /\ UNCHANGED <<cmd, out, tmp, now, call, ret>>

\* clear_temp: file.stat().st_mtime < cutoff, for the next listed file
ClearStat(p) ==
    /\ pc[p] = "clear_scan"
    /\ \E name \in loc[p].todo :
         IF name \notin DOMAIN tmp THEN Fail(p, "FileNotFoundError")
         ELSE IF tmp[name].mtime < loc[p].cutoff
         THEN /\ pc' = [pc EXCEPT ![p] = "clear_unlink"]
              /\ loc' = [loc EXCEPT ![p].victim = name, ![p].todo = @ \ {name}]
         ELSE /\ loc' = [loc EXCEPT ![p].todo = @ \ {name}]
              /\ UNCHANGED pc
    /\ UNCHANGED <<cmd, out, tmp, now, call, ret>>

\* clear_temp: file.unlink(); removed += 1
ClearUnlink(p) ==
    /\ pc[p] = "clear_unlink"
    /\ LET name == loc[p].victim
       IN IF name \notin DOMAIN tmp
          THEN Fail(p, "FileNotFoundError") /\ UNCHANGED tmp
          ELSE /\ tmp' = [n \in DOMAIN tmp \ {name} |-> tmp[n]]
               /\ loc' = [loc EXCEPT ![p].removed = @ + 1, ![p].victim = NoName]
               /\ pc' = [pc EXCEPT ![p] = "clear_scan"]
    /\ UNCHANGED <<cmd, out, now, call, ret>>

\* clear_temp: print(json.dumps({"removed": ..., "temp_dir": ...}))
ClearPrint(p) ==
    /\ pc[p] = "clear_scan"
    /\ loc[p].todo = {}
    /\ out' = [out EXCEPT ![p] = Append(@,
                 [removed |-> loc[p].removed, temp_dir |-> "procreate_meta"])]
    /\ pc' = [pc EXCEPT ![p] = "done"]
    /\ UNCHANGED <<cmd, loc, tmp, now, call, ret>>

\* Time passes
Tick ==
    /\ now < MaxClock
    /\ now' = now + 1
    /\ UNCHANGED <<pc, cmd, loc, out, tmp, call, ret>>

CNext ==
    \/ Tick
    \/ \E p \in Procs :
         \/ StartInspect(p)
         \/ StartClearTemp(p)
         \/ InspectCheck(p)
         \/ InspectOpen(p)
         \/ InspectParse(p)
         \/ ThumbRead(p)
         \/ ThumbOpen(p)
         \/ ThumbWrite(p)
         \/ ThumbVerify(p)
         \/ InspectHash(p)
         \/ InspectPrint(p)
         \/ ClearCutoff(p)
         \/ ClearList(p)
         \/ ClearStat(p)
         \/ ClearUnlink(p)
         \/ ClearPrint(p)

\* ---------------------------------------------------------- specifications

Init == FInit /\ CInit

\* The functions applied to inputs of every shape
Next == FNext

Spec == Init /\ [][Next]_vars

\* Invocations of inspect and clear-temp running side by side
NextCommands == CNext

SpecCommands == Init /\ [][NextCommands]_vars

\* ------------------------------------------- properties of the functions

IsParse == call.fn = "parse"

\* The root record of the parsed archive
Root == Index(call.data.objects, cfuid(call.data.top_root))

\* A decodable archive whose root pointer leads to a record
RecordRoot ==
    /\ IsParse
    /\ call.data.ok
    /\ cfuid(call.data.top_root).t # "none"
    /\ Root.t = "dict"

Returned == RecordRoot /\ ret.status = "ok"

SchemaKeys == {"canvas_width", "canvas_height"} \cup OtherKeys

Has(key) == key \in DOMAIN Root.d

\* The root record without some keys
Without(root, keys) == DictV([k \in DOMAIN root.d \ keys |-> root.d[k]])

\* C1: for every record-shaped root, parse_document_archive returns (it does
\* not raise) and the result holds all ten keys; for the empty root the
\* numeric fields are 0, orientation is unknown, the optional fields null.
C1_FullSchemaNeverRaises ==
    RecordRoot =>
        /\ ret.status = "ok"
        /\ SchemaKeys \subseteq ret.keys
        /\ (DOMAIN Root.d = {} /\ ~call.zf.open) =>
              /\ ret.canvas_width = IntV(0) /\ ret.canvas_height = IntV(0)
              /\ ret.dpi = IntV(0) /\ ret.layer_count = IntV(0)
              /\ ret.time_spent = IntV(0)
              /\ ret.orientation = StrV(<<"unknown">>)
              /\ ret.color_profile = NoneV /\ ret.procreate_version = NoneV
              /\ ret.created_at = NoneV /\ ret.updated_at = NoneV

\* C2: in every returned result with both dates non-null,
\* created_at <= updated_at; when the resolved created_at exceeds the
\* resolved updated_at, created_at becomes updated_at, which is unchanged.
C2_CreatedNotAfterUpdated ==
    Returned =>
        LET resolved == Dates(Root, call.zf)
            both == resolved.created.t # "none" /\ resolved.updated.t # "none"
        IN /\ (ret.created_at.t # "none" /\ ret.updated_at.t # "none")
                 => ret.created_at.n <= ret.updated_at.n
           /\ ret.updated_at = resolved.updated
           /\ (both /\ resolved.created.n > resolved.updated.n)
                 => ret.created_at = resolved.updated
           /\ ~(both /\ resolved.created.n > resolved.updated.n)
                 => ret.created_at = resolved.created

\* C2's case: created_at from the archive is later than updated_at taken
\* from the container, and was clamped down to it
C2_Witness ==
    /\ Returned
    /\ Created(Root).t = "real" /\ Modified(Root).t = "none"
    /\ call.zf.open /\ call.zf.thumb.present
    /\ Dates(Root, call.zf).created.n > Dates(Root, call.zf).updated.n
    /\ ret.created_at = IntV(call.zf.thumb.mtime)
    /\ ret.updated_at = IntV(call.zf.thumb.mtime)

CreatedKeys ==
    {"creationDate", "SilicaDocumentArchiveCreationDateKey", "documentCreationDate"}

ModifiedKeys ==
    {"lastModifiedDate", "SilicaDocumentArchiveModificationDateKey", "modificationDate"}

\* t + 978307200 truncated to an integer, for a real t
Converted(v) ==
    LET sum == v.n + AppleEpochOffset
    IN IntV(IF sum < 0 /\ v.frac # 0 THEN sum + 1 ELSE sum)

\* C3: a timestamp t stored under a candidate date key comes out as the
\* truncation of t + 978307200 (0.0 as 978307200), never as absent. Stated
\* for updated_at, which the clamp leaves alone, with one key present.
C3_StoredTimestampConverted ==
    \A k \in ModifiedKeys :
        (Returned /\ Has(k) /\ Root.d[k].t = "real"
            /\ \A other \in ModifiedKeys \ {k} : ~Has(other))
        => ret.updated_at = Converted(Root.d[k])

\* The string splits into exactly two parseable numbers
TwoNumbers(s) ==
    LET raw == Split(Strip(s, {"{", "}"}), ",")
    IN /\ Len(raw) = 2
       /\ ~IsRaise(IntOfFloatStr(raw[1]))
       /\ ~IsRaise(IntOfFloatStr(raw[2]))

Numeric(v) == v.t \in {"int", "real"}

\* C4: the value under canvasSize (else size), resolved through the table:
\* a record {width, height} and the string "{w, h}" give the truncated
\* numbers; any other resolved value, and a string that is not exactly two
\* parseable numbers, gives canvas_width = canvas_height = 0. Stated for
\* roots holding one of the two keys.
C4_CanvasSize ==
    \A k \in CanvasKeys :
        (Returned /\ Has(k) /\ ~Has(CHOOSE o \in CanvasKeys : o # k)) =>
            LET c == resolve(call.data.objects, Root.d[k])
            IN CASE c.t = "dict" ->
                      (Numeric(Get(c, "width")) /\ Numeric(Get(c, "height")))
                      => /\ ret.canvas_width = IntCast(c.d["width"])
                         /\ ret.canvas_height = IntCast(c.d["height"])
                 [] c.t = "str" /\ TwoNumbers(c.s) ->
                      LET raw == Split(Strip(c.s, {"{", "}"}), ",")
                      IN /\ ret.canvas_width = IntOfFloatStr(raw[1])
                         /\ ret.canvas_height = IntOfFloatStr(raw[2])
                 [] OTHER ->
                      /\ {"canvas_width", "canvas_height"} \subseteq ret.keys
                      /\ ret.canvas_width = IntV(0)
                      /\ ret.canvas_height = IntV(0)

\* C6: whenever the root holds the primary key, the output is derived from
\* the primary key's value alone: it is what the same root without the
\* legacy key gives.
C6_PrimaryKeyWins ==
    Returned =>
        /\ Has("dpi") =>
              ret.dpi = Dpi(Without(Root, {"SilicaDocumentArchiveDPIKey"}))
        /\ Has("timeSpentDrawing") =>
              ret.time_spent = TimeSpent(Without(Root, {"SilicaDocumentTrackedTimeKey"}))
        /\ Has("appVersion") =>
              ret.procreate_version = ProcreateVersion(Without(Root, {"version"}))
        /\ Has("canvasSize") =>
              LET alone == CanvasSize(call.data.objects, Without(Root, {"size"}))
              IN ~alone.raised =>
                    /\ ret.canvas_width = alone.w
                    /\ ret.canvas_height = alone.h

\* A single-key wrapper record {CF$UID: n} or a native Uid
ReferenceShaped(v) ==
    \/ v.t = "uid"
    \/ v.t = "dict" /\ DOMAIN v.d = {CFUID}

\* C7: cfuid returns a UID only for a reference-shaped value and none for
\* everything else; resolve returns objects[uid] for a reference and the
\* value itself otherwise.
C7_OnlyReferencesResolve ==
    /\ call.fn = "cfuid" => (ret.t # "none" <=> ReferenceShaped(call.value))
    /\ call.fn = "resolve" =>
          IF ReferenceShaped(call.value)
          THEN ret = Index(call.data.objects, cfuid(call.value))
          ELSE ret = call.value

\* x == 1 (resp. 2) as Python compares numbers
NumEq(x, i) == x.t \in {"int", "real"} /\ x.frac = 0 /\ x.n = i

\* C8: orientation is always one of the three literals, portrait for the
\* code 1, landscape for 2, unknown for any other value of any shape, and
\* extraction does not fail because of the orientation field (the root
\* holds no other key).
C8_OrientationTotal ==
    (RecordRoot /\ DOMAIN Root.d = {"orientation"}) =>
        LET x == Root.d["orientation"]
        IN /\ ret.status = "ok"
           /\ ret.orientation \in
                 {StrV(<<"portrait">>), StrV(<<"landscape">>), StrV(<<"unknown">>)}
           /\ NumEq(x, 1) => ret.orientation = StrV(<<"portrait">>)
           /\ NumEq(x, 2) => ret.orientation = StrV(<<"landscape">>)
           /\ (x.t \notin {"int", "real", "bool"})
                 => ret.orientation = StrV(<<"unknown">>)

\* A stored value that is a number
IsTimestamp(v) == v.t \in {"real", "int", "bool"}

\* The values a date field can get from the archive: the conversions of the
\* numbers stored under its candidate keys
ArchiveDates(keys) ==
    {Converted(Root.d[k]) : k \in {x \in keys \cap DOMAIN Root.d : IsTimestamp(Root.d[x])}}

\* The container's stored modification time: the thumbnail entry's when
\* that entry exists, else the archive entry's, else none
ContainerTime(zf) ==
    IF ~zf.open THEN NoneV
    ELSE IF zf.thumb.present THEN IntV(zf.thumb.mtime)
    ELSE IF zf.archive.present THEN IntV(zf.archive.mtime)
    ELSE NoneV

\* The entry the fallback reads stores a calendar date
Dated(zf) ==
    zf.open =>
        IF zf.thumb.present THEN zf.thumb.valid
        ELSE zf.archive.present => zf.archive.valid

\* C9: for a root that holds nothing but date keys, the call returns, and a
\* date field with no timestamp in the archive takes the container's stored
\* time (thumbnail entry first, archive entry second, else null), while a
\* field that has a timestamp in the archive comes out as that timestamp
\* converted, changed at most by the created_at clamp.
C9_ContainerFallback ==
    (RecordRoot /\ DOMAIN Root.d \subseteq CreatedKeys \cup ModifiedKeys) =>
        /\ ret.status = "ok"
        /\ Dated(call.zf) =>
              LET fallback == {ContainerTime(call.zf)}
                  updated == IF ArchiveDates(ModifiedKeys) # {}
                             THEN ArchiveDates(ModifiedKeys) ELSE fallback
                  created == IF ArchiveDates(CreatedKeys) # {}
                             THEN ArchiveDates(CreatedKeys) ELSE fallback
              IN /\ ret.updated_at \in updated
                 /\ \E c \in created :
                      ret.created_at =
                         IF c.t # "none" /\ ret.updated_at.t # "none"
                               /\ c.n > ret.updated_at.n
                         THEN ret.updated_at ELSE c

\* --------------------------------------------- properties of the commands

Inspecting(p) == cmd[p].kind = "inspect"

\* The invocation called inspect_procreate(path)
InspectCalled(p) == Inspecting(p) /\ cmd[p].path # NoPath

\* C5: inspect_procreate writes its JSON object only as its last step, after
\* the path check, container open, decode, root resolution, field
\* extraction, thumbnail extraction and hashing have all succeeded; a call
\* that failed, or has not finished, has written nothing, and no inspect
\* invocation that has not finished holds a metadata object in its output.
C5_OutputOnlyAtEnd ==
    \A p \in Procs :
        /\ (Inspecting(p) /\ pc[p] # "done") =>
              \A i \in 1..Len(out[p]) : "meta" \notin DOMAIN out[p][i]
        /\ InspectCalled(p) =>
            /\ pc[p] # "done" => out[p] = <<>>
            /\ pc[p] = "done" =>
                  LET file == File(cmd[p].path)
                  IN /\ file.exists /\ file.suffix = ".procreate"
                     /\ file.is_zip /\ file.zf.archive.present
                     /\ file.data.ok
                     /\ cfuid(file.data.top_root).t # "none"
                     /\ loc[p].meta.status = "ok"
                     /\ loc[p].thumb_done
                     /\ file.zf.thumb.present =>
                           /\ loc[p].thumb_path # NoName
                           /\ WellFormed(file.zf.thumb.data)
                     /\ loc[p].file_hash # <<>>
                     /\ loc[p].err = ""
                     /\ out[p] = <<[meta |-> loc[p].meta,
                                    thumbnail_path |-> loc[p].thumb_path,
                                    source_path |-> cmd[p].path,
                                    file_hash |-> loc[p].file_hash]>>

\* C5's case: one call of inspect_procreate failed at the last step that can
\* fail, the hash, with its thumbnail already extracted, and has written
\* nothing, while another ran to the end and wrote its object
C5_Witness ==
    \E p, q \in Procs :
        /\ InspectCalled(p) /\ pc[p] = "failed" /\ loc[p].err = "OSError"
        /\ loc[p].thumb_path # NoName /\ out[p] = <<>>
        /\ InspectCalled(q) /\ pc[q] = "done" /\ Len(out[q]) = 1

\* C10: when an inspect invocation emits a non-null thumbnail_path (it is
\* about to print), the file at that path exists and holds the bytes of the
\* thumbnail entry of the container that invocation inspected.
C10_EmittedThumbnailIntact ==
    \A p \in Procs :
        (Inspecting(p) /\ pc[p] = "print" /\ loc[p].thumb_path # NoName) =>
            /\ loc[p].thumb_path \in DOMAIN tmp
            /\ tmp[loc[p].thumb_path].bytes = File(cmd[p].path).zf.thumb.data

====
